---------------------------- MODULE Spec2Model ----------------------------
(***************************************************************************)
(* The autopilot run loop (crates/autopilot/src/run_loop.rs) and the       *)
(* driver client it calls (crates/autopilot/src/driver_api.rs), as a state *)
(* machine: one tick promotes the current auction, fans a /solve request   *)
(* out to every driver, joins the answers, picks the best score, sends     *)
(* /settle to the winner and then waits for the settlement transaction.    *)
(* The orders cache, the auction store, the drivers and the chain are the  *)
(* environment: their answers are drawn from small sets.                   *)
(***************************************************************************)
EXTENDS Integers, Sequences, FiniteSets

(***************************************************************************)
(* Bounds of the model.                                                    *)
(***************************************************************************)
\* ticks of run_forever that are explored
MaxTicks == 2
\* the largest number of configured drivers (RunLoop::drivers)
MaxDrivers == 2
\* the chain grows from block 0 to at most this block
MaxBlock == 3

\* The number of blocks the chain is followed for past the entry of a wait,
\* when the wait is looked at by itself.
MaxMined == 10

(***************************************************************************)
(* Program constants.                                                      *)
(***************************************************************************)
\* run_loop.rs:29, in seconds
SOLVE_TIME_LIMIT == 15
\* run_loop.rs:210, in seconds
MAX_WAIT_TIME == 60
\* shared::event_handling::MAX_REORG_BLOCK_COUNT (imported at run_loop.rs:22;
\* its value is the one the specification gives for MAX_REORG_DEPTH)
MAX_REORG_BLOCK_COUNT == 64
\* A cap that is one byte short.
RESPONSE_SIZE_LIMIT_SHORT == 10000000 - 1
\* driver_api.rs:10, in bytes
RESPONSE_SIZE_LIMIT == 10000000
\* The largest block number of the model. The code's is u64::MAX; TLC's
\* integers have 32 bits, and the blocks of the model stay far below either.
BLOCK_NUMBER_MAX == 2147483647

(***************************************************************************)
(* Option<T> is a sequence of length 0 (None) or 1 (Some(v)).              *)
(***************************************************************************)
None == <<>>

Some(v) == <<v>>

Last(s) == s[Len(s)]

Front(s) == SubSeq(s, 1, Len(s) - 1)

(***************************************************************************)
(* Scores are f64. The model keeps the layout of an IEEE float (sign,      *)
(* exponent, fraction) on 4 bits: bit 3 is the sign, bits 2..1 the         *)
(* exponent and bit 0 the fraction. Exponent 3 is infinity (fraction 0) or *)
(* NaN (fraction 1); all bits clear below the sign is zero.                *)
(*   0 +0.0   1 +0.5   2 +1.0   3 +1.5   4 +2.0   5 +3.0   6 +inf   7 NaN  *)
(*   8 -0.0   9 -0.5  10 -1.0  11 -1.5  12 -2.0  13 -3.0  14 -inf  15 -NaN *)
(***************************************************************************)
F64 == 0..15

\* The float with this sign, exponent and fraction.
Float(sign, exponent, fraction) == sign * 8 + exponent * 2 + fraction

F_ONE == Float(0, 1, 0)

F_TWO == Float(0, 2, 0)

F_NAN == Float(0, 3, 1)

F_ZERO == Float(0, 0, 0)

F_NEG_ZERO == Float(1, 0, 0)

F_NEG_ONE == Float(1, 1, 0)

F_INFINITY == Float(0, 3, 0)

F_NEG_INFINITY == Float(1, 3, 0)

SignBit(bits) == bits \div 8

Magnitude(bits) == bits % 8

IsNaN(bits) == Magnitude(bits) = 7

\* The bits as a signed integer of the float's width (to_bits() as i64).
AsSigned(bits) == IF SignBit(bits) = 1 THEN bits - 16 ELSE bits

\* f64::total_cmp: left ^= (((left >> 63) as u64) >> 1) as i64 flips every bit
\* but the sign of a negative number; the results are compared as signed ints.
TotalOrderKey(bits) ==
    IF SignBit(bits) = 1
    THEN AsSigned(8 + (7 - Magnitude(bits)))
    ELSE AsSigned(bits)

\* left.total_cmp(&right) is Less or Equal
TotalCmpLeq(left, right) == TotalOrderKey(left) <= TotalOrderKey(right)

\* The IEEE comparison left >= right: false when either is NaN, and the two
\* zeros are equal.
NumericValue(bits) == IF SignBit(bits) = 1 THEN 0 - Magnitude(bits) ELSE Magnitude(bits)

FloatGe(left, right) ==
    /\ ~IsNaN(left)
    /\ ~IsNaN(right)
    /\ NumericValue(left) >= NumericValue(right)

(***************************************************************************)
(* AuctionId::to_be_bytes: the 8 bytes of a u64, most significant first.   *)
(***************************************************************************)
RECURSIVE ShiftRightBytes(_, _)
ShiftRightBytes(n, bytes) ==
    IF bytes = 0 THEN n ELSE ShiftRightBytes(n \div 256, bytes - 1)

to_be_bytes(n) == [k \in 1..8 |-> ShiftRightBytes(n, 8 - k) % 256]

\* A suffix test that leaves the last byte out of the comparison.
ends_with_but_last(haystack, needle) ==
    /\ Len(haystack) >= Len(needle)
    /\ SubSeq(haystack, Len(haystack) - Len(needle) + 1, Len(haystack) - 1)
         = SubSeq(needle, 1, Len(needle) - 1)

\* <[u8]>::ends_with(needle): the last needle.len() bytes are the needle.
ends_with(haystack, needle) ==
    /\ Len(haystack) >= Len(needle)
    /\ SubSeq(haystack, Len(haystack) - Len(needle) + 1, Len(haystack)) = needle

\* A subtraction that wraps around below zero as u64::wrapping_sub does.
wrapping_sub(a, b) == IF a >= b THEN a - b ELSE (BLOCK_NUMBER_MAX - b) + a + 1

\* u64::saturating_sub and u64::saturating_add
saturating_sub(a, b) == IF a >= b THEN a - b ELSE 0

saturating_add(a, b) ==
    IF a > BLOCK_NUMBER_MAX - b THEN BLOCK_NUMBER_MAX ELSE a + b


(***************************************************************************)
(* The inputs of the model.                                                *)
(***************************************************************************)
\* RunLoop::network_block_interval, in seconds
BlockIntervals == {45}

\* Utc::now() when the solve request is built, in seconds
Times == {100}

\* the scores a driver may answer with
Scores == {F_ONE, F_TWO, F_NAN}

Market(uid) == [uid |-> uid, class |-> [kind |-> "Market"]]

Liquidity(uid) == [uid |-> uid, class |-> [kind |-> "Liquidity"]]

Limit(uid, surplus_fee) ==
    [uid |-> uid, class |-> [kind |-> "Limit", surplus_fee |-> surplus_fee]]

\* the auctions SolvableOrdersCache::current_auction may hold
CandidateAuctions ==
    { [orders |-> <<>>, prices |-> [t \in {1} |-> 7]],
      [orders |-> <<Liquidity(1), Liquidity(2)>>, prices |-> [t \in {1} |-> 7]],
      [orders |-> <<Liquidity(1), Limit(2, Some(5)), Limit(3, None), Market(4)>>,
       prices |-> [t \in {1, 2} |-> 10 * t]] }

\* the hashes of the settlement transactions the chain may hold
Hashes == {1, 2}

\* The calldata of the transaction with this hash (a hash fixes its
\* transaction): a settlement of the auction whose id is the hash, which ends
\* with that auction's tag.
TxInput(hash) == <<171>> \o to_be_bytes(hash)

NoEvent == 0 - 1

(***************************************************************************)
(* The state.                                                              *)
(***************************************************************************)
VARIABLES
    pc,                     \* where the run loop is
    tick,                   \* ticks started so far
    drivers,                \* RunLoop::drivers, as the number of drivers
    network_block_interval, \* RunLoop::network_block_interval
    last_id,                \* the auction store: the last id it gave out
    store_calls,            \* replace_current_auction calls of this tick
    auction,                \* Option: the auction promoted in this tick
    id,                     \* the id the store returned in this tick
    ids,                    \* the ids of the competitions run so far
    solve_log,              \* per driver, the solve requests it received in this tick
    solve_clock,            \* Option: when the tick's request was built, and the timeout set
    futures,                \* per driver, the state of its solve future
    solutions,              \* single_run_'s solutions vector
    winner,                 \* Option: the (index, response) popped
    execute_log,            \* the execute calls of this tick
    execute_result,         \* "none", "ok" or "err": the answer to the execute call
    waiter_log,             \* the tags wait_for_settlement_transaction was called with
    tick_result,            \* how the tick ended, or "running"
    block,                  \* the chain: CurrentBlockStream's block number
    events,                 \* the chain: per hash, the block of its settlement event
    tag, current, start, deadline, seen_transactions, \* the waiter's locals
    hashes,                 \* the waiter: hashes of this iteration still to fetch
    wait_result,            \* what the waiter returned
    queried,                \* Option: the block range of the waiter's last query
    looked_up,              \* Option: the waiter's last transaction lookup
    call,                   \* Option: a call of the Driver client looked at by itself
    posts,                  \* the HTTP POSTs that call has sent
    returned                \* Option: what that call returned

chain == <<block, events>>

config == <<drivers, network_block_interval>>

waiter == <<tag, current, start, deadline, seen_transactions, hashes, wait_result,
            queried, looked_up>>

competition == <<solve_log, solve_clock, futures, solutions, winner, execute_log, execute_result, waiter_log>>

store == <<last_id, store_calls, auction, id, ids>>

client == <<call, posts, returned>>

vars == <<pc, tick, tick_result, config, store, competition, waiter, chain, client>>

DriverIds == 0 .. (drivers - 1)

AllDriverIds == 0 .. (MaxDrivers - 1)

NoFuture == [state |-> "idle", response |-> None]

NoWaitResult == [kind |-> "running", tx |-> None]

Init ==
    /\ pc = "idle"
    /\ tick = 0
    /\ drivers \in 0..MaxDrivers
    /\ network_block_interval \in BlockIntervals
    /\ last_id = 0
    /\ store_calls = 0
    /\ auction = None
    /\ id = 0
    /\ ids = <<>>
    /\ solve_log = [i \in AllDriverIds |-> <<>>]
    /\ solve_clock = None
    /\ futures = [i \in AllDriverIds |-> NoFuture]
    /\ solutions = <<>>
    /\ winner = None
    /\ execute_log = <<>>
    /\ execute_result = "none"
    /\ waiter_log = <<>>
    /\ tick_result = "none"
    /\ block = 0
    /\ events = [h \in Hashes |-> NoEvent]
    /\ tag = <<>>
    /\ current = 0
    /\ start = 0
    /\ deadline = 0
    /\ seen_transactions = {}
    /\ hashes = <<>>
    /\ wait_result = NoWaitResult
    /\ queried = None
    /\ looked_up = None
    /\ call = None
    /\ posts = 0
    /\ returned = None

\* What a new tick starts from: the locals of the previous tick are gone.
FreshTick ==
    /\ tick' = tick + 1
    /\ solve_log' = [i \in AllDriverIds |-> <<>>]
    /\ solve_clock' = None
    /\ futures' = [i \in AllDriverIds |-> NoFuture]
    /\ solutions' = <<>>
    /\ winner' = None
    /\ execute_log' = <<>>
    /\ execute_result' = "none"
    /\ waiter_log' = <<>>
    /\ tag' = <<>>
    /\ current' = 0
    /\ start' = 0
    /\ deadline' = 0
    /\ seen_transactions' = {}
    /\ hashes' = <<>>
    /\ wait_result' = NoWaitResult
    /\ queried' = None
    /\ looked_up' = None

(***************************************************************************)
(* RunLoop::single_run                                                     *)
(***************************************************************************)
\* A tick without an auction that still asks the store for an id.
TickNoAuctionAsksStore ==
    /\ pc = "idle"
    /\ tick < MaxTicks
    /\ FreshTick
    /\ store_calls' = 1
    /\ auction' = None
    /\ last_id' = last_id + 1
    /\ id' = 0
    /\ tick_result' = "no_auction"
    /\ UNCHANGED <<pc, config, client, ids, chain>>

\* current_auction() is None: the tick returns.
TickNoAuction ==
    /\ pc = "idle"
    /\ tick < MaxTicks
    /\ FreshTick
    /\ store_calls' = 0
    /\ auction' = None
    /\ id' = 0
    /\ tick_result' = "no_auction"
    /\ UNCHANGED <<pc, config, client, last_id, ids, chain>>

\* A failed promotion that is tried once more before the tick returns.
TickStoreFailsRetries(candidate) ==
    /\ pc = "idle"
    /\ tick < MaxTicks
    /\ FreshTick
    /\ store_calls' = 2
    /\ auction' = None
    /\ id' = 0
    /\ tick_result' = "store_failed"
    /\ UNCHANGED <<pc, config, client, last_id, ids, chain>>

\* replace_current_auction fails: the tick returns.
TickStoreFails(candidate) ==
    /\ pc = "idle"
    /\ tick < MaxTicks
    /\ FreshTick
    /\ store_calls' = 1
    /\ auction' = None
    /\ id' = 0
    /\ tick_result' = "store_failed"
    /\ UNCHANGED <<pc, config, client, last_id, ids, chain>>

\* The id replace_current_auction returns: the store counts up.
NextAuctionId(last) == last + 1

\* A competition run with the id the loop already holds, the store not
\* asked for a new one.
TickPromoteReusesId(candidate) ==
    /\ pc = "idle"
    /\ tick < MaxTicks
    /\ FreshTick
    /\ store_calls' = 1
    /\ auction' = Some(candidate)
    /\ last_id' = last_id
    /\ id' = last_id'
    /\ ids' = Append(ids, id')
    /\ tick_result' = "running"
    /\ pc' = "solve"
    /\ UNCHANGED <<config, client, chain>>

\* A promotion by a loop that does not await the tick before: the next tick
\* starts while the wait of the last one is still polling.
TickPromoteWhileWaiting(candidate) ==
    /\ pc \in {"idle", "wait_check"}
    /\ tick < MaxTicks
    /\ FreshTick
    /\ store_calls' = 1
    /\ auction' = Some(candidate)
    /\ last_id' = NextAuctionId(last_id)
    /\ id' = last_id'
    /\ ids' = Append(ids, id')
    /\ tick_result' = "running"
    /\ pc' = "solve"
    /\ UNCHANGED <<config, client, chain>>

\* replace_current_auction returns an id: single_run_ starts.
TickPromote(candidate) ==
    /\ pc = "idle"
    /\ tick < MaxTicks
    /\ FreshTick
    /\ store_calls' = 1
    /\ auction' = Some(candidate)
    /\ last_id' = NextAuctionId(last_id)
    /\ id' = last_id'
    /\ ids' = Append(ids, id')
    /\ tick_result' = "running"
    /\ pc' = "solve"
    /\ UNCHANGED <<config, client, chain>>


(***************************************************************************)
(* RunLoop::solve                                                          *)
(***************************************************************************)
\* The arms of the match with Market and Liquidity swapped.
ClassSkipsSwapped(class) ==
    CASE class.kind = "Market" -> TRUE
      [] class.kind = "Liquidity" -> FALSE
      [] class.kind = "Limit" -> FALSE

\* The closure of the all(): whether an order of this class lets the
\* competition be skipped.
ClassSkips(class) ==
    CASE class.kind = "Market" -> FALSE
      [] class.kind = "Liquidity" -> TRUE
      [] class.kind = "Limit" -> FALSE

\* A check that holds only for an auction that has orders.
SkipsCompetitionWithOrders(a) ==
    /\ a.orders # <<>>
    /\ \A k \in 1..Len(a.orders) : ClassSkips(a.orders[k].class)

\* auction.orders.iter().all(..): solve returns no solutions at once.
SkipsCompetition(a) == \A k \in 1..Len(a.orders) : ClassSkips(a.orders[k].class)

\* A pair that carries a zero fee for a limit order whose fee is not set.
WireClassFeeDefaulted(class) ==
    CASE class.kind = "Market" -> [class |-> "Market", surplus_fee |-> None]
      [] class.kind = "Liquidity" -> [class |-> "Liquidity", surplus_fee |-> None]
      [] class.kind = "Limit" ->
            [class |-> "Limit",
             surplus_fee |-> IF class.surplus_fee = None THEN Some(0)
                             ELSE class.surplus_fee]

\* The (class, surplus_fee) pair of an order.
WireClass(class) ==
    CASE class.kind = "Market" -> [class |-> "Market", surplus_fee |-> None]
      [] class.kind = "Liquidity" -> [class |-> "Liquidity", surplus_fee |-> None]
      [] class.kind = "Limit" -> [class |-> "Limit", surplus_fee |-> class.surplus_fee]

\* solve::Order of an order: uid stands for the fields copied as they are.
WireOrder(order) ==
    [ uid |-> order.uid,
      executed |-> 0,
      pre_interactions |-> <<>>,
      class |-> WireClass(order.class).class,
      surplus_fee |-> WireClass(order.class).surplus_fee,
      reward |-> 0 ]

\* A request whose deadline is the time it is built at.
BuildRequestDueNow(a, auction_id, now) ==
    [ id |-> auction_id,
      orders |-> [k \in 1..Len(a.orders) |-> WireOrder(a.orders[k])],
      prices |-> a.prices,
      deadline |-> now ]

\* A request that leaves the Liquidity orders out.
BuildRequestWithoutLiquidity(a, auction_id, now) ==
    [ id |-> auction_id,
      orders |-> [k \in 1..Len(SelectSeq(a.orders, LAMBDA o : o.class.kind # "Liquidity")) |->
                    WireOrder(SelectSeq(a.orders, LAMBDA o : o.class.kind # "Liquidity")[k])],
      prices |-> a.prices,
      deadline |-> now + SOLVE_TIME_LIMIT ]

\* solve::Request of an auction
BuildRequest(a, auction_id, now) ==
    [ id |-> auction_id,
      orders |-> [k \in 1..Len(a.orders) |-> WireOrder(a.orders[k])],
      prices |-> a.prices,
      deadline |-> now + SOLVE_TIME_LIMIT ]

\* Every driver but the first.
SolveTargetsButFirst == DriverIds \ {0}

\* self.drivers.iter().enumerate(): the drivers a future is made for
SolveTargets == DriverIds

\* driver.solve(request): the request driver index is sent
RequestFor(request, index) == request

\* tokio::time::timeout(SOLVE_TIME_LIMIT, driver.solve(request)): the time
\* after which a driver's future is given up
SolveTimeout_Limit == SOLVE_TIME_LIMIT

\* The all-liquidity check holds: no driver is contacted.
SolveSkip ==
    /\ pc = "solve"
    /\ SkipsCompetition(auction[1])
    /\ solutions' = <<>>
    /\ pc' = "select"
    /\ UNCHANGED <<tick, tick_result, config, client, store, solve_log, solve_clock,
                   futures, winner,
                   execute_log, execute_result, waiter_log, waiter, chain>>

\* The request is built and join_all polls every driver's future: each sends
\* its POST.
SolveFanOut(now) ==
    /\ pc = "solve"
    /\ ~SkipsCompetition(auction[1])
    /\ LET request == BuildRequest(auction[1], id, now)
       IN  /\ solve_log' = [i \in AllDriverIds |->
                              IF i \in SolveTargets
                              THEN Append(solve_log[i], RequestFor(request, i))
                              ELSE solve_log[i]]
           /\ futures' = [i \in AllDriverIds |->
                            IF i \in SolveTargets
                            THEN [state |-> "pending", response |-> None]
                            ELSE futures[i]]
           /\ solve_clock' = Some([built_at |-> now, timeout |-> SolveTimeout_Limit])
    /\ pc' = "join"
    /\ UNCHANGED <<tick, tick_result, config, client, store, solutions, winner,
                   execute_log, execute_result, waiter_log, waiter, chain>>

(***************************************************************************)
(* Driver::request_response                                                *)
(***************************************************************************)
Ok(value) == [ok |-> TRUE, value |-> Some(value)]

Err == [ok |-> FALSE, value |-> None]

\* shared::http_client::response_body_with_size_limit: the body, or an error
\* when it is longer than the limit
response_body_with_size_limit(reply, limit) == reply.len <= limit

\* A client that takes every status of the 2xx class for a success.
request_response_any_2xx(reply) ==
    IF ~reply.sent THEN Err
    ELSE IF ~response_body_with_size_limit(reply, RESPONSE_SIZE_LIMIT) THEN Err
    ELSE IF reply.status \div 100 # 2 THEN Err
    ELSE IF reply.json = None THEN Err
    ELSE Ok(reply.json[1])

\* What the call returns for the driver's HTTP reply.
request_response(reply) ==
    IF ~reply.sent THEN Err
    ELSE IF ~response_body_with_size_limit(reply, RESPONSE_SIZE_LIMIT) THEN Err
    ELSE IF reply.status # 200 THEN Err
    ELSE IF reply.json = None THEN Err
    ELSE Ok(reply.json[1])

\* The HTTP replies of a driver whose body, when it is JSON, is one of bodies.
HttpReplies(bodies) ==
    { [sent |-> FALSE, status |-> 0, len |-> 0, json |-> None] }
    \cup
    { [sent |-> TRUE, status |-> status, len |-> len, json |-> json] :
        status \in {200, 500},
        len \in {RESPONSE_SIZE_LIMIT, RESPONSE_SIZE_LIMIT + 1},
        json \in {None} \cup {Some(b) : b \in bodies} }

\* Driver index names its solutions index + 1.
SolveResponses(index) == {[id |-> index + 1, score |-> sc] : sc \in Scores}

\* The acknowledgement of an execute call: execute::Response, a record like
\* solve::Response with fields of its own
ExecuteResponses == {[acknowledged |-> TRUE]}

\* The lengths of the bodies a driver is let answer a single call with.
BodyLengths == {9999999, 10000000, 10000001}

\* The HTTP replies to a single call whose body, when it is JSON of the
\* expected type, is one of bodies.
ClientReplies(bodies) ==
    { [sent |-> FALSE, status |-> 0, len |-> 0, json |-> None] }
    \cup
    { [sent |-> TRUE, status |-> status, len |-> len, json |-> json] :
        status \in {200, 201, 404, 500},
        len \in BodyLengths,
        json \in {None} \cup {Some(b) : b \in bodies} }

\* Driver::solve posts the request to solve, Driver::execute posts nothing
\* to settle/{solution_id}.
DriverPost(kind, solution_id) ==
    IF kind = "solve"
    THEN [path |-> <<"solve">>, body |-> TRUE]
    ELSE [path |-> <<"settle", solution_id>>, body |-> FALSE]

\* The bodies that decode as the Response type of the call.
ResponsesOf(kind, solution_id) ==
    IF kind = "solve" THEN SolveResponses(solution_id - 1) ELSE ExecuteResponses

\* A send that is repeated when the call is going to fail.
SendsAgainOnError(reply) == IF request_response(reply).ok THEN 1 ELSE 2

\* request.send().await: the POSTs one call sends, whatever comes back
Sends(reply) == 1

\* One call of Driver::solve or Driver::execute, from the POST to the result.
DriverCall(kind, solution_id, reply) ==
    /\ call = None
    /\ call' = Some([post |-> DriverPost(kind, solution_id), reply |-> reply])
    /\ posts' = posts + Sends(reply)
    /\ returned' = Some(request_response(reply))
    /\ UNCHANGED <<pc, tick, tick_result, config, store, competition, waiter, chain>>

(***************************************************************************)
(* The per-driver futures of solve and their join                          *)
(***************************************************************************)
\* The driver answers the solve call. The answer completes a future that is
\* still pending; one that comes after the timeout finds the future dropped.
DriverAnswers(index, reply) ==
    /\ futures[index].state \in {"pending", "timeout"}
    /\ LET result == request_response(reply)
       IN  futures' = [futures EXCEPT ![index] =
                         IF futures[index].state = "timeout"
                         THEN [state |-> "dropped", response |-> None]
                         ELSE IF result.ok
                         THEN [state |-> "ok", response |-> result.value]
                         ELSE [state |-> "err", response |-> None]]
    /\ UNCHANGED <<pc, tick, tick_result, config, client, store, solve_log, solve_clock,
                   solutions, winner,
                   execute_log, execute_result, waiter_log, waiter, chain>>

\* A timeout that only the first driver's future is wrapped in.
SolveTimeoutFirstOnly(index) ==
    /\ index = 0
    /\ futures[index].state = "pending"
    /\ futures' = [futures EXCEPT ![index] = [state |-> "timeout", response |-> None]]
    /\ UNCHANGED <<pc, tick, tick_result, config, client, store, solve_log, solve_clock,
                   solutions, winner,
                   execute_log, execute_result, waiter_log, waiter, chain>>

\* tokio::time::timeout(SOLVE_TIME_LIMIT, ..) fires first: Err("timeout").
SolveTimeout(index) ==
    /\ futures[index].state = "pending"
    /\ futures' = [futures EXCEPT ![index] = [state |-> "timeout", response |-> None]]
    /\ UNCHANGED <<pc, tick, tick_result, config, client, store, solve_log, solve_clock,
                   solutions, winner,
                   execute_log, execute_result, waiter_log, waiter, chain>>

\* A join that returns with the first future that is done.
JoinReadyFirst ==
    \/ DriverIds = {}
    \/ \E i \in DriverIds : futures[i].state # "pending"

\* join_all(futures).await returns: every future is done.
JoinReady == \A i \in DriverIds : futures[i].state # "pending"

\* A collection that keeps a driver whose result is an Err, with the
\* response of a driver that has nothing to offer.
RECURSIVE CollectFromCompleted(_, _, _)
CollectFromCompleted(fs, index, n) ==
    IF index >= n THEN <<>>
    ELSE <<[index |-> index,
            response |-> IF fs[index].state = "ok"
                         THEN fs[index].response[1]
                         ELSE [id |-> index + 1, score |-> Float(0, 0, 0)]]>>
         \o CollectFromCompleted(fs, index + 1, n)

\* results.into_iter().filter_map(..).collect(): the Ok results from driver
\* index on, in the order of the drivers.
RECURSIVE CollectFrom(_, _, _)
CollectFrom(fs, index, n) ==
    IF index >= n THEN <<>>
    ELSE (IF fs[index].state = "ok"
          THEN <<[index |-> index, response |-> fs[index].response[1]]>>
          ELSE <<>>) \o CollectFrom(fs, index + 1, n)

SolveJoin ==
    /\ pc = "join"
    /\ JoinReady
    /\ solutions' = CollectFrom(futures, 0, drivers)
    /\ pc' = "select"
    /\ UNCHANGED <<tick, tick_result, config, client, store, solve_log, solve_clock,
                   futures, winner,
                   execute_log, execute_result, waiter_log, waiter, chain>>


(***************************************************************************)
(* RunLoop::single_run_ after solve, and RunLoop::execute                  *)
(***************************************************************************)
\* The orders of a vector: the sequences with the same elements.
Orderings(s) ==
    LET n == Len(s)
        bijections == {f \in [1..n -> 1..n] : \A i, j \in 1..n : i # j => f[i] # f[j]}
    IN  {[i \in 1..n |-> s[f[i]]] : f \in bijections}

\* solutions.shuffle(rng): any order
Shuffles(s) == Orderings(s)

\* A comparison of the scores as integers, sign bit included.
CompareBits(left, right) == left.response.score <= right.response.score

\* |left, right| left.1.score.total_cmp(&right.1.score), as "not Greater"
Compare(left, right) == TotalCmpLeq(left.response.score, right.response.score)

\* sort_unstable_by(compare): ascending; equal elements in any order
SortsUnstable(s) ==
    {p \in Orderings(s) : \A i \in 1..(Len(p) - 1) : Compare(p[i], p[i + 1])}

\* Every solution, best last.
PoppedAll(sorted) == sorted

\* Of the solutions that compare equal to the last one, the one of the driver
\* configured first.
PoppedFirstConfigured(sorted) ==
    IF sorted = <<>> THEN None
    ELSE LET ties == {k \in 1..Len(sorted) : Compare(sorted[Len(sorted)], sorted[k])}
             first == CHOOSE k \in ties : \A j \in ties : sorted[k].index <= sorted[j].index
         IN  Some(sorted[first])

\* solutions.pop(): the last element, if there is one
Popped(sorted) == IF sorted = <<>> THEN None ELSE Some(Last(sorted))

\* execute::Request of an auction id
ExecuteRequest(auction_id) ==
    [auction_id |-> auction_id, transaction_identifier |-> to_be_bytes(auction_id)]

\* The call sent to the first driver, whoever won.
ExecuteCallToFirst(popped, auction_id) ==
    [ driver |-> 0,
      solution_id |-> popped.response.id,
      request |-> ExecuteRequest(auction_id) ]

\* driver.execute(&solution.id, &request) for a popped (index, solution)
ExecuteCall(popped, auction_id) ==
    [ driver |-> popped.index,
      solution_id |-> popped.response.id,
      request |-> ExecuteRequest(auction_id) ]

\* Shuffle, sort, pop; nothing to pop ends the tick, and a popped solution is
\* sent to its driver.
Select ==
    /\ pc = "select"
    /\ \E shuffled \in Shuffles(solutions) :
       \E sorted \in SortsUnstable(shuffled) :
          LET popped == Popped(sorted)
          IN  IF popped = <<>>
              THEN /\ tick_result' = "no_solutions"
                   /\ pc' = "idle"
                   /\ UNCHANGED <<solutions, winner, execute_log>>
              ELSE /\ winner' = Some(Last(popped))
                   /\ solutions' = Front(sorted)
                   /\ execute_log' = execute_log \o
                         [k \in 1..Len(popped) |-> ExecuteCall(popped[k], id)]
                   /\ pc' = "executing"
                   /\ UNCHANGED tick_result
    /\ UNCHANGED <<tick, config, client, store, solve_log, solve_clock,
                   futures, execute_result,
                   waiter_log, waiter, chain>>

\* Going on whatever the driver answered.
ProceedsAlways(result) == TRUE

\* .context("execute")?: execute goes on to the wait only if the call is Ok
Proceeds(result) == result.ok

\* The quotient rounded down.
max_wait_time_blocks_floor(interval) == MAX_WAIT_TIME \div interval

\* (MAX_WAIT_TIME / network_block_interval).ceil() as u64
max_wait_time_blocks(interval) == (MAX_WAIT_TIME + interval - 1) \div interval

\* A tag that drops the first byte of the identifier.
WaiterTagTruncated(request) == Tail(request.transaction_identifier)

\* wait_for_settlement_transaction(&request.transaction_identifier)
WaiterTag(request) == request.transaction_identifier

\* The driver answers the execute call. An error ends the tick; otherwise
\* wait_for_settlement_transaction is called with the request's tag; the
\* solutions, the popped solution and the futures are not read again, and
\* the model does not carry them through the wait.
ExecuteAnswers(reply) ==
    /\ pc = "executing"
    /\ LET result == request_response(reply)
       IN  /\ execute_result' = IF result.ok THEN "ok" ELSE "err"
           /\ IF Proceeds(result)
              THEN /\ tag' = WaiterTag(Last(execute_log).request)
                   /\ waiter_log' = Append(waiter_log, tag')
                   /\ pc' = "wait_enter"
                   /\ solutions' = <<>>
                   /\ winner' = None
                   /\ futures' = [i \in AllDriverIds |-> NoFuture]
                   /\ UNCHANGED tick_result
              ELSE /\ tick_result' = "execute_failed"
                   /\ pc' = "idle"
                   /\ UNCHANGED <<waiter_log, tag, solutions, winner, futures>>
    /\ UNCHANGED <<tick, config, client, store, solve_log, solve_clock,
                   execute_log, chain,
                   current, start, deadline, seen_transactions, hashes, wait_result,
                   queried, looked_up>>

(***************************************************************************)
(* RunLoop::wait_for_settlement_transaction                                *)
(***************************************************************************)
\* Leaving the loop once the chain is past the deadline.
LoopBreaksPastDeadline(number, limit) == number > limit

\* if self.current_block.borrow().number <= deadline { break; }
LoopBreaks(number, limit) == number <= limit

\* The elements of a set of numbers in ascending order.
RECURSIVE Ascending(_)
Ascending(set) ==
    IF set = {} THEN <<>>
    ELSE LET least == CHOOSE x \in set : \A y \in set : x <= y
         IN  <<least>> \o Ascending(set \ {least})

\* Postgres::recent_settlement_tx_hashes(from..to): the hashes of the
\* settlement events of the blocks from, .., to - 1
recent_settlement_tx_hashes(from, to) ==
    Ascending({h \in Hashes : events[h] # NoEvent /\ from <= events[h] /\ events[h] < to})

\* A retain that keeps every hash.
RetainAll(list, seen) == list

\* hashes.retain(|hash| !seen_transactions.contains(hash))
Retain(list, seen) == SelectSeq(list, LAMBDA h : h \notin seen)

\* web3.eth().transaction(Hash(hash)): the transaction, or None when a reorg
\* has dropped it
transaction(hash, found) ==
    IF found THEN Some([hash |-> hash, input |-> TxInput(hash)]) ELSE None

\* The block window is computed from the current block and the set of seen
\* transactions starts empty.
WaitEnter ==
    /\ pc = "wait_enter"
    /\ current' = block
    /\ start' = saturating_sub(block, MAX_REORG_BLOCK_COUNT)
    /\ deadline' = saturating_add(block, max_wait_time_blocks(network_block_interval))
    /\ seen_transactions' = {}
    /\ pc' = "wait_check"
    /\ UNCHANGED <<tick, tick_result, config, client, store, competition, chain,
                   tag, hashes, wait_result, queried, looked_up>>

\* A wait that notes an error of the observer and polls again.
WaitReturnsRetriesOnError(result, outcome) ==
    /\ wait_result' = result
    /\ IF result.kind = "Err"
       THEN /\ tick_result' = tick_result
            /\ pc' = "wait_check"
       ELSE /\ tick_result' = outcome
            /\ pc' = "idle"

\* The wait returns: execute returns, single_run_ returns, the tick is over.
WaitReturns(result, outcome) ==
    /\ wait_result' = result
    /\ tick_result' = outcome
    /\ pc' = "idle"

\* A range that leaves the deadline's block out.
QueryRangeOpenEnd(first, last) == [from |-> first, to |-> last]

\* start..deadline + 1: the blocks from, .., to - 1 of the query
QueryRange(first, last) == [from |-> first, to |-> last + 1]

\* The loop condition holds: Ok(None).
WaitBreak ==
    /\ pc = "wait_check"
    /\ LoopBreaks(block, deadline)
    /\ WaitReturns([kind |-> "None", tx |-> None], "not_settled")
    /\ UNCHANGED <<tick, config, client, store, competition, chain,
                   tag, current, start, deadline, seen_transactions, hashes, queried,
                   looked_up>>

\* One more iteration: the event index is queried.
WaitQuery(query_ok) ==
    /\ pc = "wait_check"
    /\ ~LoopBreaks(block, deadline)
    /\ LET range == QueryRange(start, deadline)
       IN  /\ queried' = Some(range)
           /\ IF query_ok
              THEN /\ hashes' = Retain(recent_settlement_tx_hashes(range.from, range.to),
                                       seen_transactions)
                   /\ pc' = "wait_fetch"
                   /\ UNCHANGED <<wait_result, tick_result>>
              ELSE /\ WaitReturns([kind |-> "Err", tx |-> None], "observer_failed")
                   /\ UNCHANGED hashes
    /\ UNCHANGED <<tick, config, client, store, competition, chain,
                   tag, current, start, deadline, seen_transactions, looked_up>>

\* A loop body in which a lookup that finds no transaction fails the wait.
WaitFetchFailsOnNone(lookup) ==
    /\ pc = "wait_fetch"
    /\ hashes # <<>>
    /\ LET hash == Head(hashes)
           tx == transaction(hash, lookup = "some")
       IN  /\ looked_up' = Some([hash |-> hash, found |-> lookup])
           /\ IF lookup = "err"
              THEN /\ WaitReturns([kind |-> "Err", tx |-> None], "observer_failed")
                   /\ UNCHANGED <<hashes, seen_transactions>>
              ELSE IF tx = None
              THEN /\ WaitReturns([kind |-> "Err", tx |-> None], "observer_failed")
                   /\ UNCHANGED <<hashes, seen_transactions>>
              ELSE IF ends_with(tx[1].input, tag)
              THEN /\ WaitReturns([kind |-> "Some", tx |-> tx], "settled")
                   /\ UNCHANGED <<hashes, seen_transactions>>
              ELSE /\ seen_transactions' = seen_transactions \cup {hash}
                   /\ hashes' = Tail(hashes)
                   /\ UNCHANGED <<pc, wait_result, tick_result>>
    /\ UNCHANGED <<tick, config, client, store, competition, chain,
                   tag, current, start, deadline, queried>>

\* A loop body that notes a hash as seen also when its lookup finds no
\* transaction.
WaitFetchSeesNone(lookup) ==
    /\ pc = "wait_fetch"
    /\ hashes # <<>>
    /\ LET hash == Head(hashes)
           tx == transaction(hash, lookup = "some")
       IN  /\ looked_up' = Some([hash |-> hash, found |-> lookup])
           /\ IF lookup = "err"
              THEN /\ WaitReturns([kind |-> "Err", tx |-> None], "observer_failed")
                   /\ UNCHANGED <<hashes, seen_transactions>>
              ELSE IF tx = None
              THEN /\ seen_transactions' = seen_transactions \cup {hash}
                   /\ hashes' = Tail(hashes)
                   /\ UNCHANGED <<pc, wait_result, tick_result>>
              ELSE IF ends_with(tx[1].input, tag)
              THEN /\ WaitReturns([kind |-> "Some", tx |-> tx], "settled")
                   /\ UNCHANGED <<hashes, seen_transactions>>
              ELSE /\ seen_transactions' = seen_transactions \cup {hash}
                   /\ hashes' = Tail(hashes)
                   /\ UNCHANGED <<pc, wait_result, tick_result>>
    /\ UNCHANGED <<tick, config, client, store, competition, chain,
                   tag, current, start, deadline, queried>>

\* The body of the for loop for the next hash.
WaitFetch(lookup) ==
    /\ pc = "wait_fetch"
    /\ hashes # <<>>
    /\ LET hash == Head(hashes)
           tx == transaction(hash, lookup = "some")
       IN  /\ looked_up' = Some([hash |-> hash, found |-> lookup])
           /\ IF lookup = "err"
              THEN /\ WaitReturns([kind |-> "Err", tx |-> None], "observer_failed")
                   /\ UNCHANGED <<hashes, seen_transactions>>
              ELSE IF tx = None
              THEN /\ hashes' = Tail(hashes)
                   /\ UNCHANGED <<pc, wait_result, tick_result, seen_transactions>>
              ELSE IF ends_with(tx[1].input, tag)
              THEN /\ WaitReturns([kind |-> "Some", tx |-> tx], "settled")
                   /\ UNCHANGED <<hashes, seen_transactions>>
              ELSE /\ seen_transactions' = seen_transactions \cup {hash}
                   /\ hashes' = Tail(hashes)
                   /\ UNCHANGED <<pc, wait_result, tick_result>>
    /\ UNCHANGED <<tick, config, client, store, competition, chain,
                   tag, current, start, deadline, queried>>

\* The for loop is done: sleep half a block interval.
WaitSleep ==
    /\ pc = "wait_fetch"
    /\ hashes = <<>>
    /\ pc' = "wait_check"
    /\ UNCHANGED <<tick, tick_result, config, client, store, competition, waiter, chain>>

(***************************************************************************)
(* The chain. Only the waiter reads it, so the model lets it move from the *)
(* call of the waiter on: what the chain did before, during the execute    *)
(* call, is what it does before the waiter first reads it.                 *)
(***************************************************************************)
ChainObserved == pc \in {"wait_enter", "wait_check", "wait_fetch"}

NewBlock ==
    /\ ChainObserved
    /\ block < MaxBlock
    /\ block' = block + 1
    /\ UNCHANGED <<pc, tick, tick_result, config, client, store, competition, waiter,
                   events>>

\* A settlement transaction is mined in the current block.
Settle(hash) ==
    /\ ChainObserved
    /\ events[hash] = NoEvent
    /\ events' = [events EXCEPT ![hash] = block]
    /\ UNCHANGED <<pc, tick, tick_result, config, client, store, competition, waiter, block>>

(***************************************************************************)
(* The specification                                                       *)
(***************************************************************************)
Next ==
    \/ TickNoAuction
    \/ \E candidate \in CandidateAuctions : TickStoreFails(candidate)
    \/ \E candidate \in CandidateAuctions : TickPromote(candidate)
    \/ SolveSkip
    \/ \E now \in Times : SolveFanOut(now)
    \/ \E i \in DriverIds : \E reply \in HttpReplies(SolveResponses(i)) :
          DriverAnswers(i, reply)
    \/ \E i \in DriverIds : SolveTimeout(i)
    \/ SolveJoin
    \/ Select
    \/ \E reply \in HttpReplies(ExecuteResponses) : ExecuteAnswers(reply)
    \/ WaitEnter
    \/ WaitBreak
    \/ \E query_ok \in BOOLEAN : WaitQuery(query_ok)
    \/ \E lookup \in {"some", "none", "err"} : WaitFetch(lookup)
    \/ WaitSleep
    \/ NewBlock
    \/ \E h \in Hashes : Settle(h)

Spec == Init /\ [][Next]_vars

\* The steps of the run loop's own task up to the return of solve: what the
\* runtime does on its own once the task can go on. A timer that was set
\* fires (the sleep between ticks, the solve timeout) and a call to the
\* store returns. A driver's answer to solve is not among them: a driver may
\* never answer.
SolvePhaseStep ==
    \/ TickNoAuction
    \/ \E candidate \in CandidateAuctions : TickStoreFails(candidate)
    \/ \E candidate \in CandidateAuctions : TickPromote(candidate)
    \/ SolveSkip
    \/ \E now \in Times : SolveFanOut(now)
    \/ \E i \in DriverIds : SolveTimeout(i)
    \/ SolveJoin

\* The steps of the run loop's own task. After solve, too, timers fire (the
\* sleep of the polling loop) and calls return: those to the chain observer,
\* and the one to a driver's execute endpoint, which the HTTP client gives up
\* after RESPONSE_TIME_LIMIT. The moves of the chain are not among them: the
\* chain may stand still.
RunLoopStep ==
    \/ SolvePhaseStep
    \/ Select
    \/ \E reply \in HttpReplies(ExecuteResponses) : ExecuteAnswers(reply)
    \/ WaitEnter
    \/ WaitBreak
    \/ \E query_ok \in BOOLEAN : WaitQuery(query_ok)
    \/ \E lookup \in {"some", "none", "err"} : WaitFetch(lookup)
    \/ WaitSleep

\* The run loop's task is scheduled as long as it can take a step.
FairSpec == Spec /\ WF_vars(RunLoopStep)

\* The run loop up to the return of solve: the ticks start and run their
\* solve phase, with the drivers answering or not.
SolveNext ==
    \/ SolvePhaseStep
    \/ \E i \in DriverIds : \E reply \in HttpReplies(SolveResponses(i)) :
          DriverAnswers(i, reply)

SolveSpec == Init /\ [][SolveNext]_vars /\ WF_vars(SolvePhaseStep)

\* The competition of a tick up to the execute call, with the drivers
\* answering with the scores at the edges of f64.
EdgeScores == {F_ZERO, F_NEG_ZERO, F_INFINITY, F_NEG_INFINITY, F_ONE, F_NEG_ONE, F_NAN}

EdgeResponses(index) == {[id |-> index + 1, score |-> sc] : sc \in EdgeScores}

SelectNext ==
    \/ TickNoAuction
    \/ \E candidate \in CandidateAuctions : TickStoreFails(candidate)
    \/ \E candidate \in CandidateAuctions : TickPromote(candidate)
    \/ SolveSkip
    \/ \E now \in Times : SolveFanOut(now)
    \/ \E i \in DriverIds : \E reply \in HttpReplies(EdgeResponses(i)) :
          DriverAnswers(i, reply)
    \/ \E i \in DriverIds : SolveTimeout(i)
    \/ SolveJoin
    \/ Select

SelectSpec == Init /\ [][SelectNext]_vars

\* The solve phase with the request built at any of several times.
BuildTimes == {0, 100, 2000}

DeadlineNext ==
    \/ TickNoAuction
    \/ \E candidate \in CandidateAuctions : TickStoreFails(candidate)
    \/ \E candidate \in CandidateAuctions : TickPromote(candidate)
    \/ SolveSkip
    \/ \E now \in BuildTimes : SolveFanOut(now)
    \/ \E i \in DriverIds : \E reply \in HttpReplies(SolveResponses(i)) :
          DriverAnswers(i, reply)
    \/ \E i \in DriverIds : SolveTimeout(i)
    \/ SolveJoin

DeadlineSpec == Init /\ [][DeadlineNext]_vars


\* The Driver client by itself: one call of solve or execute, with any reply.
ClientNext ==
    \E kind \in {"solve", "execute"} : \E solution_id \in 1..MaxDrivers :
      \E reply \in ClientReplies(ResponsesOf(kind, solution_id)) :
          DriverCall(kind, solution_id, reply)

ClientSpec == Init /\ [][ClientNext]_vars

\* The run loop with panics. A call made inside a tick panics: nothing in
\* single_run_, single_run or run_forever catches the unwinding
\* (self.single_run().await is awaited as it is), so it leaves run_forever and
\* the loop is over.
Panic ==
    /\ pc \notin {"idle", "unwound"}
    /\ pc' = "unwound"
    /\ tick_result' = "panicked"
    /\ UNCHANGED <<tick, config, client, store, competition, waiter, chain>>

PanicNext == Next \/ Panic

PanicSpec == Init /\ [][PanicNext]_vars

\* wait_for_settlement_transaction by itself. The block numbers the chain is
\* at when a wait is entered, and the block intervals of the networks, in
\* seconds.
EntryBlocks == {0, 10, 63, 64, 65, 100}

WaitIntervals == {7, 12, 45, 60}

\* The one auction of the candidates that is put to the drivers.
CompetedAuction == CHOOSE a \in CandidateAuctions : ~SkipsCompetition(a)

\* The state in which the wait of a first tick is entered: the auction was
\* promoted with id 1, the only driver answered the solve call, won and has
\* acknowledged the execute call. The chain is at any of the entry blocks.
WaiterInit ==
    /\ pc = "wait_enter"
    /\ tick = 1
    /\ drivers = 1
    /\ network_block_interval \in WaitIntervals
    /\ last_id = NextAuctionId(0)
    /\ store_calls = 1
    /\ auction = Some(CompetedAuction)
    /\ id = last_id
    /\ ids = <<id>>
    /\ \E now \in Times :
          /\ solve_log = [i \in AllDriverIds |->
                            IF i = 0
                            THEN <<RequestFor(BuildRequest(CompetedAuction, id, now), i)>>
                            ELSE <<>>]
          /\ solve_clock = Some([built_at |-> now, timeout |-> SolveTimeout_Limit])
    /\ futures = [i \in AllDriverIds |-> NoFuture]
    /\ solutions = <<>>
    /\ winner = None
    /\ LET response == CHOOSE r \in SolveResponses(0) : r.score = F_ONE
       IN  execute_log = <<ExecuteCall([index |-> 0, response |-> response], id)>>
    /\ execute_result = "ok"
    /\ tag = ExecuteRequest(id).transaction_identifier
    /\ waiter_log = <<tag>>
    /\ tick_result = "running"
    /\ block \in EntryBlocks
    /\ events = [h \in Hashes |-> NoEvent]
    /\ current = 0
    /\ start = 0
    /\ deadline = 0
    /\ seen_transactions = {}
    /\ hashes = <<>>
    /\ wait_result = NoWaitResult
    /\ queried = None
    /\ looked_up = None
    /\ call = None
    /\ posts = 0
    /\ returned = None

\* Several blocks are mined between two reads of the current block by the
\* loop of the wait: the chain is followed for MaxMined blocks past the block
\* read at entry.
BlocksMined(n) ==
    /\ pc \in {"wait_check", "wait_fetch"}
    /\ block + n <= current + MaxMined
    /\ block' = block + n
    /\ UNCHANGED <<pc, tick, tick_result, config, client, store, competition, waiter,
                   events>>

WaiterNext ==
    \/ WaitEnter
    \/ WaitBreak
    \/ \E query_ok \in BOOLEAN : WaitQuery(query_ok)
    \/ \E lookup \in {"some", "none", "err"} : WaitFetch(lookup)
    \/ WaitSleep
    \/ NewBlock
    \/ \E n \in 1..MaxMined : BlocksMined(n)
    \/ \E h \in Hashes : Settle(h)

WaiterSpec == WaiterInit /\ [][WaiterNext]_vars

(***************************************************************************)
(* What the claims are stated with                                         *)
(***************************************************************************)
\* suffix is the end of bytes: bytes is some prefix followed by suffix.
HasSuffix(bytes, suffix) ==
    \E k \in 0..Len(bytes) : SubSeq(bytes, k + 1, Len(bytes)) = suffix

\* Every order of the auction has class Liquidity.
AllOrdersLiquidity(a) ==
    \A k \in 1..Len(a.orders) : a.orders[k].class.kind = "Liquidity"

\* The event index lists, in the block window of the wait, a transaction
\* whose calldata ends with the tag.
MatchListed ==
    \E h \in Hashes :
        /\ events[h] # NoEvent
        /\ start <= events[h]
        /\ events[h] <= deadline
        /\ HasSuffix(TxInput(h), tag)

(***************************************************************************)
(* The claims                                                              *)
(***************************************************************************)
\* C1: the wait returns None only once the current block is strictly past
\* the deadline; a wait does not return None while the chain is still within
\* the deadline (in particular not at the block it was entered at).
C1_NoneOnlyPastDeadline ==
    wait_result.kind = "None" => block > deadline

\* C2: if the event index lists, within the block window and while the chain
\* has not passed the deadline, a transaction whose calldata ends with the
\* tag, the wait does not return None.
C2_ListedMatchIsReturned ==
    (wait_result.kind = "None" /\ block <= deadline) => ~MatchListed

\* C3: a transaction the wait returns has calldata that ends with the tag.
C3_ReturnedTxEndsWithTag ==
    wait_result.kind = "Some" =>
        /\ wait_result.tx # None
        /\ HasSuffix(wait_result.tx[1].input, tag)
        /\ tag = to_be_bytes(id)

C3_Witness ==
    /\ wait_result.kind = "Some"
    /\ seen_transactions # {}

\* C4: a tick issues at most one execute call, whatever the drivers answered
\* and however the call ends.
C4_AtMostOneExecute == Len(execute_log) <= 1

C4_Witness ==
    /\ Len(execute_log) = 1
    /\ Len(solutions) >= 1
    /\ execute_result = "err"

\* C5: the driver that is sent the execute call has a collected response
\* whose score is greater than or equal to every other collected score.
C5_WinnerScoreIsGreatest ==
    pc = "executing" =>
        /\ winner # None
        /\ Last(execute_log).driver = winner[1].index
        /\ \A k \in 1..Len(solutions) :
              FloatGe(winner[1].response.score, solutions[k].response.score)

\* C6: a response with a NaN score is dropped by the collection: it is
\* neither in the solutions nor the one that is executed.
C6_NaNIsDropped ==
    /\ \A k \in 1..Len(solutions) : ~IsNaN(solutions[k].response.score)
    /\ winner # None => ~IsNaN(winner[1].response.score)

\* C7: in a tick whose promoted auction has only Liquidity orders no driver
\* is sent a solve request, the competition result is empty and no execute
\* call is issued.
C7_AllLiquidityNoCalls ==
    (auction # None /\ AllOrdersLiquidity(auction[1])) =>
        /\ \A i \in AllDriverIds : solve_log[i] = <<>> /\ futures[i].state = "idle"
        /\ solutions = <<>>
        /\ winner = None
        /\ execute_log = <<>>
        /\ waiter_log = <<>>
        /\ pc = "idle" => tick_result = "no_solutions"

C7_Witness ==
    /\ auction # None
    /\ Len(auction[1].orders) = 2
    /\ AllOrdersLiquidity(auction[1])
    /\ drivers = MaxDrivers
    /\ tick_result = "no_solutions"

\* C8: in a tick whose promoted auction has an order that is not Liquidity,
\* once the fan-out has run every configured driver has received exactly one
\* solve call, and all of them the same request, which carries the promoted
\* id and the auction's prices and one order per order of the auction.
C8_EveryDriverOneSameRequest ==
    (auction # None /\ ~AllOrdersLiquidity(auction[1]) /\ pc # "solve") =>
        /\ \A i \in DriverIds :
              /\ Len(solve_log[i]) = 1
              /\ solve_log[i][1] = solve_log[0][1]
              /\ solve_log[i][1].id = id
              /\ solve_log[i][1].prices = auction[1].prices
              /\ Len(solve_log[i][1].orders) = Len(auction[1].orders)
        /\ \A i \in AllDriverIds \ DriverIds : solve_log[i] = <<>>

C8_Witness ==
    /\ auction # None
    /\ ~AllOrdersLiquidity(auction[1])
    /\ drivers = MaxDrivers
    /\ pc = "join"
    /\ \A i \in DriverIds : Len(solve_log[i]) = 1

\* C9: when an execute call has been issued no solve future of the tick is
\* still pending, and the winner has been selected.
C9_ExecuteAfterAllSolves ==
    execute_log # <<>> =>
        /\ \A i \in DriverIds : futures[i].state # "pending"
        /\ pc = "executing" => winner # None

C9_Witness ==
    /\ pc = "executing"
    /\ execute_log # <<>>
    /\ \E i, j \in DriverIds :
          /\ futures[i].state = "ok"
          /\ futures[j].state \in {"timeout", "dropped", "err"}

\* C10: when the execute call fails the tick is over: that call is the only
\* execute call of the tick and the settlement wait is not started.
C10_ExecuteFailureEndsTick ==
    execute_result = "err" =>
        /\ pc = "idle"
        /\ tick_result = "execute_failed"
        /\ Len(execute_log) = 1
        /\ waiter_log = <<>>
        /\ wait_result = NoWaitResult

C10_Witness ==
    /\ execute_result = "err"
    /\ tick_result = "execute_failed"
    /\ Len(solutions) >= 1
    /\ Last(execute_log).driver # solutions[1].index

\* The number a sequence of bytes stands for, most significant byte first.
RECURSIVE BigEndianValue(_)
BigEndianValue(bytes) ==
    IF bytes = <<>> THEN 0
    ELSE 256 * BigEndianValue(Front(bytes)) + Last(bytes)

\* No driver has been called in this tick and no wait has been started.
NoDriverOrObserverCalled ==
    /\ \A i \in AllDriverIds : solve_log[i] = <<>> /\ futures[i].state = "idle"
    /\ execute_log = <<>>
    /\ execute_result = "none"
    /\ waiter_log = <<>>
    /\ wait_result = NoWaitResult

\* C11: the execute call of a tick goes to the driver of the popped (index,
\* response) pair with that response's solution id; its request carries the
\* promoted id and, as transaction_identifier, the 8 bytes that are the id
\* most significant byte first (42 gives 00 00 00 00 00 00 00 2a).
C11_ExecuteCallOfWinner ==
    /\ \A k \in 1..Len(execute_log) :
          /\ execute_log[k].request.auction_id = id
          /\ Len(execute_log[k].request.transaction_identifier) = 8
          /\ \A b \in 1..8 : execute_log[k].request.transaction_identifier[b] \in 0..255
          /\ BigEndianValue(execute_log[k].request.transaction_identifier) = id
          /\ id = Last(ids)
    /\ pc = "executing" =>
          /\ winner # None
          /\ futures[winner[1].index].state = "ok"
          /\ futures[winner[1].index].response = Some(winner[1].response)
          /\ Last(execute_log).driver = winner[1].index
          /\ Last(execute_log).solution_id = winner[1].response.id
    /\ ExecuteRequest(42).transaction_identifier = <<0, 0, 0, 0, 0, 0, 0, 42>>

C11_Witness ==
    /\ pc = "executing"
    /\ drivers = MaxDrivers
    /\ Len(solutions) >= 1
    /\ winner # None
    /\ winner[1].index = 1
    /\ Last(execute_log).request.transaction_identifier = <<0, 0, 0, 0, 0, 0, 0, 2>>

\* C12: a tick in which replace_current_auction failed has called the store
\* once, has sent no solve and no execute call and has started no wait, and
\* it is over: the store is next called by the next tick.
C12_StoreFailureEndsTick ==
    tick_result = "store_failed" =>
        /\ pc = "idle"
        /\ store_calls = 1
        /\ auction = None
        /\ NoDriverOrObserverCalled
        /\ solutions = <<>>
        /\ winner = None

C12_Witness ==
    /\ tick_result = "store_failed"
    /\ tick = 2
    /\ store_calls = 1
    /\ Len(ids) = 1

\* C13: the step of a tick that finds no current auction calls neither the
\* store nor a driver nor the chain observer, and leaves the store (the last
\* id given out, the ids used) and the chain as they were.
C13_NoAuctionTouchesNothing ==
    [][(tick' = tick + 1 /\ tick_result' = "no_auction") =>
          /\ store_calls' = 0
          /\ last_id' = last_id
          /\ ids' = ids
          /\ pc' = "idle"
          /\ NoDriverOrObserverCalled'
          /\ UNCHANGED <<chain, config>>]_vars

C13_Witness ==
    /\ tick_result = "no_auction"
    /\ tick = 2
    /\ last_id = 1
    /\ store_calls = 0

\* The chain does not stand still within the block window of a wait for
\* ever: again and again either no wait is polling or the current block is
\* past the wait's deadline.
ChainPassesDeadline ==
    []<>(pc \notin {"wait_check", "wait_fetch"} \/ block > deadline)

\* C14: the run loop goes on for ever: on a chain that does not stand still,
\* whenever a tick has been started a further tick is started later (as long
\* as the model's bound on the number of ticks allows one).
C14_AnotherTickIsStarted ==
    ChainPassesDeadline => \A n \in 0..(MaxTicks - 1) : (tick = n) ~> (tick = n + 1)

\* The solve call of driver i failed, timed out, or was answered too late.
SolveFailed(i) == futures[i].state \in {"err", "timeout", "dropped"}

C16_SolvePhaseTerminates == (pc = "join") ~> (pc = "select")

C16_Witness ==
    /\ pc = "select"
    /\ drivers = MaxDrivers
    /\ \A i \in DriverIds : futures[i].state = "timeout"
    /\ solutions = <<>>

\* What a tick can be seen to have done after the solve phase.
TickOutcome ==
    [ solutions |-> solutions,
      winner |-> winner,
      execute_calls |-> execute_log,
      execute_result |-> execute_result,
      waits |-> waiter_log,
      wait_result |-> wait_result ]

\* The outcome of a tick with an empty competition.
EmptyOutcome ==
    [ solutions |-> <<>>,
      winner |-> None,
      execute_calls |-> <<>>,
      execute_result |-> "none",
      waits |-> <<>>,
      wait_result |-> NoWaitResult ]

\* C17: a tick with a promoted auction in which no driver's solve call
\* succeeded, be it that there is no driver or that every driver failed or
\* timed out, has one and the same outcome: an empty competition, no execute
\* call and no settlement wait; it ends as a tick without solutions.
C17_NoDriverLikeAllFailed ==
    (auction # None /\ \A i \in DriverIds : SolveFailed(i)) =>
        /\ TickOutcome = EmptyOutcome
        /\ pc \in {"solve", "join", "select", "idle"}
        /\ pc = "idle" => tick_result = "no_solutions"

C17_Witness ==
    /\ auction # None
    /\ ~AllOrdersLiquidity(auction[1])
    /\ drivers = MaxDrivers
    /\ futures[0].state = "err"
    /\ futures[1].state \in {"timeout", "dropped"}
    /\ pc = "idle"
    /\ tick_result = "no_solutions"

\* C18: the ids of the competitions run so far are strictly increasing (so
\* none is used twice); a tick calls the store at most once, and the id in
\* its solve requests and in its execute call is the id that call returned.
C18_IdsStrictlyIncreasing ==
    /\ \A i, j \in 1..Len(ids) : i < j => ids[i] < ids[j]
    /\ Len(ids) <= tick
    /\ store_calls <= 1
    /\ auction # None =>
          /\ store_calls = 1
          /\ id = Last(ids)
          /\ id = last_id
    /\ \A i \in AllDriverIds : \A k \in 1..Len(solve_log[i]) :
          solve_log[i][k].id = id /\ id = Last(ids)
    /\ \A k \in 1..Len(execute_log) :
          execute_log[k].request.auction_id = id /\ id = Last(ids)

C18_Witness ==
    /\ Len(ids) = 2
    /\ ids[1] < ids[2]
    /\ execute_log # <<>>
    /\ Last(execute_log).request.auction_id = ids[2]

\* C19: when the chain observer has failed during a wait the wait has
\* returned the error and polls no more, and the tick is over with that
\* error: its one execute call and its one solve call per driver are all the
\* driver calls it makes.
C19_ObserverFailureEndsTick ==
    wait_result.kind = "Err" =>
        /\ pc = "idle"
        /\ tick_result = "observer_failed"
        /\ wait_result.tx = None
        /\ execute_result = "ok"
        /\ Len(execute_log) = 1
        /\ Len(waiter_log) = 1
        /\ \A i \in AllDriverIds : Len(solve_log[i]) <= 1

C19_Witness ==
    /\ wait_result.kind = "Err"
    /\ hashes # <<>>
    /\ seen_transactions # {}
    /\ tick_result = "observer_failed"

\* C20: once the current block is past the deadline the wait's next step at
\* the loop test is to return None; and a wait that returns None ends the
\* tick without an error, as one that returns a transaction does.
C20_PastDeadlineReturnsNone ==
    [][/\ (pc = "wait_check" /\ block > deadline /\ pc' # pc) =>
             /\ wait_result'.kind = "None"
             /\ pc' = "idle"
       /\ wait_result'.kind \in {"None", "Some"} =>
             /\ pc' = "idle"
             /\ tick_result' \in {"not_settled", "settled"}
             /\ execute_result' = "ok"]_vars

\* C21: a call of the Driver client returns Ok exactly when the request was
\* sent and answered, the status is 200, the body is within the size cap and
\* the body decodes as the response; Ok carries the decoded response.
C21_OkOnlyForGood200 ==
    returned # None =>
        LET reply == call[1].reply
            good == /\ reply.sent
                    /\ reply.status = 200
                    /\ reply.len <= 10000000
                    /\ reply.json # None
        IN  /\ returned[1].ok <=> good
            /\ returned[1].ok => returned[1].value = reply.json
            /\ ~returned[1].ok => returned[1].value = None

C21_Witness ==
    /\ returned # None
    /\ ~returned[1].ok
    /\ call[1].reply.status = 201
    /\ call[1].reply.len < 10000000
    /\ call[1].reply.json # None

\* C22: a body of exactly 10,000,000 bytes is accepted (the call is Ok when
\* nothing else is wrong with the reply) and one of 10,000,001 bytes makes
\* the call fail.
C22_SizeLimitBoundary ==
    (returned # None /\ call[1].reply.sent) =>
        /\ (/\ call[1].reply.len = 10000000
            /\ call[1].reply.status = 200
            /\ call[1].reply.json # None) => returned[1].ok
        /\ call[1].reply.len = 10000001 => ~returned[1].ok

C22_Witness ==
    /\ returned # None
    /\ call[1].reply.len = 10000000
    /\ call[1].post.path = <<"settle", 2>>
    /\ returned[1].ok

\* C23: a call of the Driver client that has returned, with Ok or with an
\* error, has sent exactly one POST.
C23_OnePostPerCall ==
    /\ returned # None => posts = 1
    /\ returned = None => posts = 0

C23_Witness ==
    /\ returned # None
    /\ ~returned[1].ok
    /\ ~call[1].reply.sent
    /\ posts = 1

\* The window of the wait has been computed.
WindowComputed == pc \in {"wait_check", "wait_fetch"} \/ wait_result # NoWaitResult

\* C24: the start of the scan window is the block read at entry less the
\* reorg depth, and 0 when that block is below the depth: it is never
\* negative and never above the block read at entry (at block 10, with the
\* depth 64, it is 0).
C24_StartSaturatesAtZero ==
    WindowComputed =>
        /\ current < MAX_REORG_BLOCK_COUNT => start = 0
        /\ current >= MAX_REORG_BLOCK_COUNT => start + MAX_REORG_BLOCK_COUNT = current
        /\ start >= 0
        /\ start <= current
        /\ current = 10 => start = 0

C24_Witness ==
    /\ WindowComputed
    /\ current = 10
    /\ start = 0
    /\ wait_result.kind = "None"

\* The least number of block intervals that take at least 60 seconds.
BlocksToWait(interval) ==
    CHOOSE n \in 0..60 : n * interval >= 60 /\ (n - 1) * interval < 60

\* C25: the deadline of a wait is the block read at entry plus the number of
\* block intervals that cover 60 seconds, rounded up (5 for 12 s, 9 for 7 s),
\* and neither it nor the block read at entry changes while the wait polls.
C25_DeadlineIsEntryPlusCeil ==
    /\ [](WindowComputed =>
            /\ deadline = current + BlocksToWait(network_block_interval)
            /\ network_block_interval = 12 => deadline = current + 5
            /\ network_block_interval = 7 => deadline = current + 9)
    /\ [][(pc = "wait_check" \/ pc = "wait_fetch") =>
            (deadline' = deadline /\ current' = current /\ start' = start)]_vars

C25_Witness ==
    /\ pc = "wait_fetch"
    /\ network_block_interval = 7
    /\ current = 0
    /\ deadline = 9
    /\ block > deadline
    /\ seen_transactions # {}

\* The requests sent to the drivers so far.
RequestsSent == UNION {{solve_log[i][n] : n \in 1..Len(solve_log[i])} : i \in AllDriverIds}

\* C26 as claimed: in every request sent, an order carries a surplus_fee
\* exactly when its class is Limit.
C26_FeePresentIffLimit ==
    \A request \in RequestsSent :
        \A k \in 1..Len(request.orders) :
            (request.orders[k].surplus_fee # None) <=> (request.orders[k].class = "Limit")

\* C26 (amended): an order of the request has the class of the auction's
\* order; a Market or Liquidity order carries no surplus_fee, and a Limit
\* order carries the surplus_fee of its class as it is, present exactly when
\* the class has one.
C26_FeeIsTheLimitClassFee ==
    pc = "join" =>
        \A i \in DriverIds :
            LET request == solve_log[i][Len(solve_log[i])]
                orders == auction[1].orders
            IN  /\ Len(request.orders) = Len(orders)
                /\ \A k \in 1..Len(orders) :
                     /\ request.orders[k].class = orders[k].class.kind
                     /\ orders[k].class.kind \in {"Market", "Liquidity"} =>
                            request.orders[k].surplus_fee = None
                     /\ orders[k].class.kind = "Limit" =>
                            request.orders[k].surplus_fee = orders[k].class.surplus_fee

C26_Witness ==
    /\ pc = "join"
    /\ 0 \in DriverIds
    /\ LET request == solve_log[0][Len(solve_log[0])]
       IN  /\ \E k \in 1..Len(request.orders) :
                 request.orders[k].class = "Limit" /\ request.orders[k].surplus_fee = None
           /\ \E k \in 1..Len(request.orders) :
                 request.orders[k].class = "Limit" /\ request.orders[k].surplus_fee = Some(5)
           /\ \E k \in 1..Len(request.orders) :
                 request.orders[k].class = "Market" /\ request.orders[k].surplus_fee = None

\* The collected response k has the maximal score and shares it with another.
SharesMaximalScore(k) ==
    /\ \A j \in 1..Len(solutions) : Compare(solutions[j], solutions[k])
    /\ \E j \in 1..Len(solutions) :
          j # k /\ solutions[j].response.score = solutions[k].response.score

\* C27: when the selection starts with two or more collected responses that
\* share the maximal score, then for each of them the selection has a step
\* that sends the execute call of this tick to its driver: position does not
\* fix the winner.
C27_EachTiedDriverCanWin ==
    pc = "select" =>
        \A k \in 1..Len(solutions) :
            SharesMaximalScore(k) =>
                ENABLED ( /\ Select
                          /\ winner' = Some(solutions[k])
                          /\ Last(execute_log').driver = solutions[k].index )

C27_Witness ==
    /\ pc = "executing"
    /\ winner # None
    /\ winner[1].index = 1
    /\ winner[1].response.score = F_ONE
    /\ Len(solutions) = 1
    /\ solutions[1].index = 0
    /\ solutions[1].response.score = F_ONE
    /\ Last(execute_log).driver = 1

\* C28 as claimed: a panic raised inside a tick is caught at the tick
\* boundary: the tick has returned, run_forever is still running and can go
\* on to the next tick.
C28_PanicCaughtAtTickBoundary ==
    tick_result = "panicked" => pc = "idle"

\* C29: every query of the event index in a wait asks for the blocks from
\* start to deadline, both included, where start and deadline are those
\* computed at the entry of the wait; a later query asks for the range the
\* one before asked for, however far the chain has advanced.
C29_SameInclusiveRange ==
    /\ [](queried # None =>
            /\ queried[1].from = start
            /\ queried[1].to - 1 = deadline
            /\ start = IF current >= MAX_REORG_BLOCK_COUNT
                       THEN current - MAX_REORG_BLOCK_COUNT ELSE 0
            /\ deadline = current + BlocksToWait(network_block_interval))
    /\ [][queried # None => queried' = queried]_vars

C29_Witness ==
    /\ pc = "wait_fetch"
    /\ queried = Some([from |-> 0, to |-> 3])
    /\ deadline = 2
    /\ block > deadline + 1
    /\ seen_transactions # {}
    /\ \E k \in 1..Len(hashes) : events[hashes[k]] = deadline

\* The last lookup found a transaction whose calldata does not end with the
\* tag.
FetchedNotMatching ==
    /\ looked_up # None
    /\ looked_up[1].found = "some"
    /\ ~HasSuffix(TxInput(looked_up[1].hash), tag)

\* C30: within one wait the set of seen transactions only grows and is empty
\* when the wait is entered; a hash that was fetched and found not to match
\* is in the set from that lookup on, and no hash of the set is among the
\* hashes an iteration is still to fetch.
C30_SeenOnlyGrowsNoRefetch ==
    /\ [](pc = "wait_fetch" =>
            \A k \in 1..Len(hashes) : hashes[k] \notin seen_transactions)
    /\ [](FetchedNotMatching => looked_up[1].hash \in seen_transactions)
    /\ []((pc = "wait_check" /\ queried = None) => seen_transactions = {})
    /\ [][(pc = "wait_check" \/ pc = "wait_fetch") =>
             seen_transactions \subseteq seen_transactions']_vars

C30_Witness ==
    /\ pc = "wait_fetch"
    /\ FetchedNotMatching
    /\ hashes = <<>>
    /\ seen_transactions = {looked_up[1].hash}
    /\ queried[1].from <= events[looked_up[1].hash]
    /\ events[looked_up[1].hash] < queried[1].to
    /\ \E h \in Hashes : events[h] # NoEvent /\ h \notin seen_transactions

\* The step is a transaction lookup of the wait: the loop body has acted on
\* the first of the hashes.
LookupStep ==
    /\ pc = "wait_fetch"
    /\ hashes # <<>>
    /\ (hashes' # hashes \/ pc' # pc)

\* C31: a lookup that returns None for a listed hash neither fails nor ends
\* the wait: the hash is dropped from the hashes of the iteration, the rest of
\* them stay to be examined, no result is returned, and from the state after
\* it the loop can go on (to the next hash, or to the sleep before the next
\* iteration).
C31_NoneLookupIsSkipped ==
    /\ [][(LookupStep /\ looked_up'[1].found = "none") =>
            /\ looked_up'[1].hash = Head(hashes)
            /\ hashes' = Tail(hashes)
            /\ pc' = "wait_fetch"
            /\ wait_result' = NoWaitResult
            /\ tick_result' = "running"]_vars
    /\ []((/\ pc = "wait_fetch"
           /\ looked_up # None
           /\ looked_up[1].found = "none") =>
            ENABLED (WaitSleep \/ \E lookup \in {"some", "none", "err"} : WaitFetch(lookup)))

C31_Witness ==
    /\ pc = "wait_fetch"
    /\ looked_up = Some([hash |-> 1, found |-> "none"])
    /\ hashes = <<2>>
    /\ wait_result = NoWaitResult

\* The hashes the event index lists for the range of the wait.
ListedHashes ==
    {h \in Hashes : events[h] # NoEvent /\ start <= events[h] /\ events[h] <= deadline}

\* C39: a lookup that returns None leaves the seen-set as it is, so the hash
\* is not in it; every later query of the same wait whose listing has the
\* hash hands it to the loop body again, where a lookup that finds its
\* transaction ending with the tag returns it.
C39_NoneLookupIsLookedUpAgain ==
    /\ [][(LookupStep /\ looked_up'[1].found = "none") =>
            seen_transactions' = seen_transactions]_vars
    /\ []((looked_up # None /\ looked_up[1].found = "none") =>
            looked_up[1].hash \notin seen_transactions)
    /\ [][(/\ pc = "wait_check"
           /\ pc' = "wait_fetch"
           /\ looked_up # None
           /\ looked_up[1].found = "none"
           /\ looked_up[1].hash \in ListedHashes) =>
            \E k \in 1..Len(hashes') : hashes'[k] = looked_up[1].hash]_vars
    /\ []((/\ pc = "wait_fetch"
           /\ hashes # <<>>
           /\ looked_up # None
           /\ looked_up[1].found = "none"
           /\ Head(hashes) = looked_up[1].hash
           /\ HasSuffix(TxInput(Head(hashes)), tag)) =>
            ENABLED (/\ WaitFetch("some")
                     /\ wait_result'.kind = "Some"
                     /\ wait_result'.tx[1].hash = Head(hashes)))

C39_Witness ==
    /\ pc = "wait_fetch"
    /\ looked_up = Some([hash |-> 1, found |-> "none"])
    /\ hashes # <<>>
    /\ Head(hashes) = 1
    /\ 2 \in seen_transactions
    /\ HasSuffix(TxInput(1), tag)

\* C32: the wait for the settlement is started only after the driver of the
\* execute call has acknowledged it, at most once in a tick, and with the
\* transaction_identifier of the tick's execute request as its tag.
C32_WaiterAfterAckOnceWithTag ==
    /\ [](/\ Len(waiter_log) <= 1
          /\ pc \in {"wait_enter", "wait_check", "wait_fetch"} => Len(waiter_log) = 1
          /\ waiter_log # <<>> =>
                /\ execute_result = "ok"
                /\ Len(execute_log) = 1
                /\ execute_log[1].driver \in DriverIds
                /\ execute_log[1].request.auction_id = id
                /\ waiter_log[1] = execute_log[1].request.transaction_identifier
                /\ tag = waiter_log[1])
    /\ [][waiter_log' # waiter_log =>
            \/ (pc = "executing" /\ execute_result' = "ok" /\ pc' = "wait_enter")
            \/ waiter_log' = <<>>]_vars

C32_Witness ==
    /\ pc = "wait_check"
    /\ tick = 2
    /\ execute_result = "ok"
    /\ waiter_log = <<to_be_bytes(2)>>
    /\ execute_log[1].request.transaction_identifier = tag

\* C33: the request sent for an auction has one order per order of the
\* auction, in the auction's sequence and with the Liquidity orders among
\* them; each has the class of its order, executed and reward zero and no
\* pre-interactions; the prices are the auction's prices.
C33_RequestProjectsAuction ==
    pc = "join" =>
        \A i \in DriverIds :
            LET request == solve_log[i][Len(solve_log[i])]
            IN  /\ DOMAIN request.orders = DOMAIN auction[1].orders
                /\ \A k \in DOMAIN request.orders :
                     /\ request.orders[k].uid = auction[1].orders[k].uid
                     /\ request.orders[k].class \in {"Market", "Liquidity", "Limit"}
                     /\ request.orders[k].class = auction[1].orders[k].class.kind
                     /\ request.orders[k].executed = 0
                     /\ request.orders[k].reward = 0
                     /\ request.orders[k].pre_interactions = <<>>
                /\ request.prices = auction[1].prices
                /\ request.id = id

C33_Witness ==
    /\ pc = "join"
    /\ 1 \in DriverIds
    /\ tick = 2
    /\ LET request == solve_log[1][Len(solve_log[1])]
       IN  /\ Len(request.orders) = 4
           /\ request.orders[1].class = "Liquidity"
           /\ request.orders[2].class = "Limit"
           /\ request.orders[4].class = "Market"
           /\ request.orders[4].uid = 4
           /\ request.prices = auction[1].prices

\* C34: the deadline in the request of a tick is the time the request was
\* built at plus 15 seconds: strictly later than that time and not later than
\* it plus the budget; the timeout set locally for each driver's answer is
\* the same 15 seconds.
C34_DeadlineIsBuildTimePlusBudget ==
    \A i \in DriverIds : \A n \in 1..Len(solve_log[i]) :
        /\ solve_clock # None
        /\ solve_log[i][n].deadline = solve_clock[1].built_at + 15
        /\ solve_log[i][n].deadline > solve_clock[1].built_at
        /\ solve_log[i][n].deadline <= solve_clock[1].built_at + solve_clock[1].timeout
        /\ solve_clock[1].timeout = 15

C34_Witness ==
    /\ pc = "join"
    /\ 1 \in DriverIds
    /\ solve_clock = Some([built_at |-> 2000, timeout |-> 15])
    /\ Len(solve_log[1]) = 1
    /\ solve_log[1][1].deadline = 2015
    /\ futures[1].state = "timeout"

\* The drivers whose solve call returned Ok in this tick, and their scores.
Answered == {i \in DriverIds : futures[i].state = "ok"}

ScoreOf(i) == futures[i].response[1].score

\* A score that is a number: not an infinity and not NaN.
IsFiniteScore(bits) == Magnitude(bits) < 6

IsZeroScore(bits) == Magnitude(bits) = 0

\* Every answered response is among the collected ones, whatever its score.
AnsweredAreKept ==
    pc = "select" =>
        \A i \in Answered :
            \E k \in 1..Len(solutions) :
                solutions[k] = [index |-> i, response |-> futures[i].response[1]]

\* An answered +infinity is never passed over for a finite score, and a
\* -infinity wins only when no finite score was answered.
InfinitiesAreOrdered ==
    pc = "executing" =>
        /\ (\E i \in Answered : ScoreOf(i) = F_INFINITY) =>
              ~IsFiniteScore(winner[1].response.score)
        /\ winner[1].response.score = F_NEG_INFINITY =>
              \A i \in Answered : ~IsFiniteScore(ScoreOf(i))

\* C35 as claimed: the zeros and the infinities are kept and ordered like
\* numbers, and +0.0 and -0.0 are a tie: when the best score answered is
\* zero, every driver that answered a zero of either sign can win.
C35_EdgeScoresOrderedZerosTie ==
    /\ AnsweredAreKept
    /\ InfinitiesAreOrdered
    /\ pc = "select" =>
          \A k \in 1..Len(solutions) :
              (/\ IsZeroScore(solutions[k].response.score)
               /\ \A j \in 1..Len(solutions) :
                     FloatGe(solutions[k].response.score, solutions[j].response.score)) =>
                  ENABLED (Select /\ winner' = Some(solutions[k]))

\* C35 (amended): the zeros and the infinities are kept and ordered like
\* numbers, with -0.0 below +0.0: when no NaN was answered the winner's score
\* is not less than any answered score, and a -0.0 response wins only when no
\* +0.0 was answered.
C35_EdgeScoresOrderedNegZeroBelow ==
    /\ AnsweredAreKept
    /\ InfinitiesAreOrdered
    /\ pc = "executing" =>
          /\ (\A i \in Answered : ~IsNaN(ScoreOf(i))) =>
                \A i \in Answered : FloatGe(winner[1].response.score, ScoreOf(i))
          /\ winner[1].response.score = F_NEG_ZERO =>
                \A i \in Answered : ScoreOf(i) # F_ZERO

C35_Witness ==
    /\ pc = "executing"
    /\ Answered = {0, 1}
    /\ ScoreOf(0) = F_NEG_ZERO
    /\ ScoreOf(1) = F_ZERO
    /\ winner[1].index = 1
    /\ Last(execute_log).driver = 1

\* C36: on a chain whose block number keeps advancing past the deadline, a
\* wait that has been entered returns: a transaction, None or an error.
C36_WaitReturns ==
    ChainPassesDeadline =>
        ((pc \in {"wait_check", "wait_fetch"}) ~> (pc \notin {"wait_check", "wait_fetch"}))

\* A tick is at work: in its solve phase, its execute call or its wait.
TickAtWork == pc \in {"solve", "join", "select", "executing",
                      "wait_enter", "wait_check", "wait_fetch"}

\* C37: ticks do not overlap. The store promotes an auction only when no tick
\* is at work: the tick before has returned, with its solve phase, execute
\* call and wait over; and whatever a tick at work has sent or waits for
\* belongs to the one auction promoted last.
C37_TicksDoNotOverlap ==
    /\ [][(ids' # ids \/ store_calls' # store_calls \/ tick' # tick) =>
            /\ ~TickAtWork
            /\ tick_result # "running"
            /\ \A i \in DriverIds : futures[i].state # "pending"]_vars
    /\ [](TickAtWork =>
            /\ tick_result = "running"
            /\ id = Last(ids)
            /\ Len(ids) <= tick
            /\ \A i \in DriverIds : \A n \in 1..Len(solve_log[i]) : solve_log[i][n].id = id
            /\ \A n \in 1..Len(execute_log) : execute_log[n].request.auction_id = id
            /\ pc \in {"wait_check", "wait_fetch"} => BigEndianValue(tag) = id)

C37_Witness ==
    /\ tick = 2
    /\ pc = "join"
    /\ ids = <<1, 2>>
    /\ block > 0
    /\ \E i \in DriverIds : futures[i].state = "pending"

\* C38: a promoted auction without orders takes an id from the store, the
\* tick's id, as any promoted auction does; no driver is sent a solve request
\* for it, there is no execute call and no wait, and the tick ends without
\* solutions, as that of an all-liquidity auction does.
C38_EmptyAuctionLikeAllLiquidity ==
    /\ [][(tick' # tick /\ auction' # None /\ auction'[1].orders = <<>>) =>
            /\ store_calls' = 1
            /\ last_id' > last_id
            /\ id' = last_id'
            /\ ids' = Append(ids, id')
            /\ pc' = "solve"]_vars
    /\ []((auction # None /\ auction[1].orders = <<>>) =>
            /\ id = Last(ids)
            /\ pc \in {"solve", "select", "idle"}
            /\ NoDriverOrObserverCalled
            /\ TickOutcome = EmptyOutcome
            /\ pc = "idle" => tick_result = "no_solutions")

C38_Witness ==
    /\ auction # None
    /\ auction[1].orders = <<>>
    /\ drivers = MaxDrivers
    /\ tick = 2
    /\ ids = <<1, 2>>
    /\ pc = "idle"
    /\ tick_result = "no_solutions"

=============================================================================
